---- MODULE Spec2Model ----
(***************************************************************************)
(* Model of docio (src/docio/__init__.py): three document handles, TextIO, *)
(* OfficeOpenXMLSpreadsheetIO and XMLIO, each with extract / swap / save.  *)
(*                                                                         *)
(* A Python str is a sequence of one-character strings; Python's None is   *)
(* the value None below, which is no such sequence.  An lxml tree is kept  *)
(* flat: node ids 1..n, node 1 the root, parent[i] the parent of node i,   *)
(* text[i] / tail[i] the node's .text and .tail.  Children of a node are   *)
(* listed by increasing id, which is their document order.                 *)
(***************************************************************************)
EXTENDS Integers, Sequences, FiniteSets, TLC

VARIABLES variant, original_path, text, sst, etree, fs, dirs, call, saves

vars == <<variant, original_path, text, sst, etree, fs, dirs, call, saves>>

\* ------------------------------------------------------------------ values

\* Python's None: a one-element sequence whose element is no character.
None == <<"None">>

\* The whitespace characters among those the modelled strings use
\* (" ", "LF", "CR", "a", "b", "f", "x").
isspace(c) == c \in {" ", "LF", "CR"}

\* Longest length of the texts argument of swap.
MaxTexts == 3

\* Longest shared-string table (number of ns:t elements).
MaxEntries == 3

\* Most save calls on one handle (saves counts them).
MaxSaves == 2

Min(a, b) == IF a < b THEN a ELSE b

\* All sequences over S of length 0..n.
SeqUpTo(S, n) == UNION {[1..k -> S] : k \in 0..n}

\* str.strip(): drop leading and trailing whitespace.
RECURSIVE lstrip(_)
lstrip(s) == IF s # <<>> /\ isspace(Head(s)) THEN lstrip(Tail(s)) ELSE s

RECURSIVE rstrip(_)
rstrip(s) ==
    IF s # <<>> /\ isspace(s[Len(s)]) THEN rstrip(SubSeq(s, 1, Len(s) - 1)) ELSE s

strip(s) == rstrip(lstrip(s))

\* list(reversed(texts))
reversed(s) == [i \in 1..Len(s) |-> s[Len(s) + 1 - i]]

\* ------------------------------------------------------------- XMLIO tree

getroot == 1

Nodes(t) == 1..Len(t.parent)

\* element.iterchildren(): the children of e in document order.
iterchildren(t, e) ==
    SelectSeq([i \in 1..Len(t.parent) |-> i], LAMBDA j : t.parent[j] = e)

\* XMLIO.extract.append_if_not_only_whitespace
append_if_not_only_whitespace(txt, texts) ==
    IF txt # None /\ strip(txt) # <<>> THEN Append(texts, txt) ELSE texts

RECURSIVE extract_element(_, _, _), extract_children(_, _, _)

\* Mutant: the tail is appended before the children are visited.
extract_element_TailFirst(t, e, texts) ==
    LET texts1 == append_if_not_only_whitespace(t.text[e], texts)
        texts2 == append_if_not_only_whitespace(t.tail[e], texts1)
    IN  extract_children(t, iterchildren(t, e), texts2)

\* XMLIO.extract.extract: own text, every child in turn, then the tail.
extract_element(t, e, texts) ==
    LET texts1 == append_if_not_only_whitespace(t.text[e], texts)
        texts2 == extract_children(t, iterchildren(t, e), texts1)
    IN  append_if_not_only_whitespace(t.tail[e], texts2)

\* The for loop of XMLIO.extract.extract over the children.
extract_children(t, kids, texts) ==
    IF kids = <<>> THEN texts
    ELSE extract_children(t, Tail(kids), extract_element(t, Head(kids), texts))

\* XMLIO.extract
XMLIO_extract(t) == extract_element(t, getroot, <<>>)

\* The walker of XMLIO.swap carries the tree being mutated, the reversed
\* list it pops from, and whether list.pop() has raised IndexError (an
\* exception ends the walk: every later step leaves the walker alone).

\* Mutant: popping from the empty list yields None instead of raising.
pop_EmptyIsNone(w) ==
    IF w.texts = <<>> THEN [w EXCEPT !.popped = None]
    ELSE [w EXCEPT !.popped = w.texts[Len(w.texts)],
                   !.texts = SubSeq(w.texts, 1, Len(w.texts) - 1)]

\* texts.pop(): removes and yields the last element; IndexError when empty.
pop(w) ==
    IF w.texts = <<>> THEN [w EXCEPT !.raised = TRUE]
    ELSE [w EXCEPT !.popped = w.texts[Len(w.texts)],
                   !.texts = SubSeq(w.texts, 1, Len(w.texts) - 1)]

\* setattr(element, property, new_text)
setattr(t, e, property, new_text) ==
    IF property = "text" THEN [t EXCEPT !.text[e] = new_text]
    ELSE [t EXCEPT !.tail[e] = new_text]

\* getattr(element, property)
getattr(t, e, property) == IF property = "text" THEN t.text[e] ELSE t.tail[e]

\* Mutant: every non-null slot is a swap target, whitespace-only or not.
swap_if_valid_NoStrip(w, e, property) ==
    IF w.raised THEN w
    ELSE IF getattr(w.tree, e, property) # None
         THEN LET w1 == pop(w)
              IN  IF w1.raised \/ w1.popped = None THEN w1
                  ELSE [w1 EXCEPT !.tree = setattr(w.tree, e, property, w1.popped)]
         ELSE w

\* XMLIO.swap.swap_if_valid
swap_if_valid(w, e, property) ==
    IF w.raised THEN w
    ELSE LET txt == getattr(w.tree, e, property)
         IN  IF txt # None /\ strip(txt) # <<>>
             THEN LET w1 == pop(w)
                  IN  IF w1.raised \/ w1.popped = None THEN w1
                      ELSE [w1 EXCEPT !.tree = setattr(w.tree, e, property, w1.popped)]
             ELSE w

RECURSIVE swap_element(_, _), swap_children(_, _)

\* XMLIO.swap.swap: own text, every child in turn, then the tail.
swap_element(w, e) ==
    LET w1 == swap_if_valid(w, e, "text")
        w2 == swap_children(w1, iterchildren(w.tree, e))
    IN  swap_if_valid(w2, e, "tail")

\* The for loop of XMLIO.swap.swap over the children.
swap_children(w, kids) ==
    IF kids = <<>> THEN w
    ELSE swap_children(swap_element(w, Head(kids)), Tail(kids))

\* Mutant: the list is popped from its end without being reversed first.
walker_NotReversed(t, texts) ==
    [tree |-> t, texts |-> texts, raised |-> FALSE, popped |-> None]

\* The walker XMLIO.swap starts from: swap(root, list(reversed(texts))).
walker(t, texts) ==
    [tree |-> t, texts |-> reversed(texts), raised |-> FALSE, popped |-> None]

\* XMLIO.swap: the walker after the call (its tree is the mutated tree).
XMLIO_swap(t, texts) == swap_element(walker(t, texts), getroot)

\* XMLIO.save: lxml.etree.tostring(self.etree, xml_declaration=True, ...).
\* The bytes are kept as tokens: tags, and the characters of the texts.  A
\* text of None and a text of '' both serialise to nothing.
chars(txt) == IF txt = None THEN <<>> ELSE txt

RECURSIVE tostring_element(_, _), tostring_children(_, _)

tostring_element(t, e) ==
    <<"<e>">> \o chars(t.text[e]) \o tostring_children(t, iterchildren(t, e))
              \o <<"</e>">> \o chars(t.tail[e])

tostring_children(t, kids) ==
    IF kids = <<>> THEN <<>>
    ELSE tostring_element(t, Head(kids)) \o tostring_children(t, Tail(kids))

XMLIO_tostring(t) == <<"<?xml?>">> \o tostring_element(t, getroot)

\* ------------------------------------------------------------------ TextIO

\* open(file_path).read(): text mode translates "\r\n" and "\r" to "\n".
RECURSIVE read(_)
read(bytes) ==
    IF bytes = <<>> THEN <<>>
    ELSE IF Head(bytes) = "CR"
         THEN IF Len(bytes) > 1 /\ bytes[2] = "LF"
              THEN <<"LF">> \o read(SubSeq(bytes, 3, Len(bytes)))
              ELSE <<"LF">> \o read(Tail(bytes))
         ELSE <<Head(bytes)>> \o read(Tail(bytes))

\* TextIO.extract
TextIO_extract(txt) == <<txt>>

\* ---------------------------------------------- OfficeOpenXMLSpreadsheetIO

\* The tree of xl/sharedStrings.xml is kept as the sequence of the .text of
\* its ns:t elements in document order: None when the element has no text
\* node (<t></t> or <t/> as parsed), a string otherwise.

shared_strings_path == "xl/sharedStrings.xml"

\* OfficeOpenXMLSpreadsheetIO.extract: xpath('//ns:t/text()') yields the text
\* nodes of the ns:t elements, so an element without a text node yields none.
OfficeOpenXMLSpreadsheetIO_extract(table) ==
    SelectSeq(table, LAMBDA txt : txt # None)

\* Mutant: the new text is assigned without the None test.
OfficeOpenXMLSpreadsheetIO_swap_NoNoneTest(table, texts) ==
    [i \in 1..Len(table) |-> IF i <= Len(texts) THEN texts[i] ELSE table[i]]

\* OfficeOpenXMLSpreadsheetIO.swap: zip() pairs element i with texts[i] and
\* stops at the shorter of the two.
OfficeOpenXMLSpreadsheetIO_swap(table, texts) ==
    [i \in 1..Len(table) |->
        IF i <= Min(Len(table), Len(texts)) /\ texts[i] # None
        THEN texts[i] ELSE table[i]]

\* lxml.etree.tostring of the shared-string tree.
RECURSIVE tostring_entries(_)
tostring_entries(table) ==
    IF table = <<>> THEN <<>>
    ELSE <<"<t>">> \o chars(Head(table)) \o <<"</t>">> \o tostring_entries(Tail(table))

sst_tostring(table) ==
    <<"<?xml?>", "<sst>">> \o tostring_entries(table) \o <<"</sst>">>

\* lxml.etree.fromstring of a serialised shared-string tree: the texts of
\* the ns:t elements, None for an element with nothing between its tags.
RECURSIVE fromstring_entries(_, _, _)
fromstring_entries(bytes, table, cur) ==
    IF bytes = <<>> THEN table
    ELSE LET b == Head(bytes) IN
         IF b = "<t>" THEN fromstring_entries(Tail(bytes), table, <<>>)
         ELSE IF b = "</t>"
              THEN fromstring_entries(Tail(bytes),
                       Append(table, IF cur = <<>> THEN None ELSE cur), <<>>)
         ELSE IF b \in {"<?xml?>", "<sst>", "</sst>"}
              THEN fromstring_entries(Tail(bytes), table, cur)
         ELSE fromstring_entries(Tail(bytes), table, Append(cur, b))

fromstring(bytes) == fromstring_entries(bytes, <<>>, <<>>)

\* A zip container is the sequence of its entries [name, data].

\* zipfile.ZipFile.open(name): NameToInfo keeps the last entry of a name.
RECURSIVE zip_read(_, _)
zip_read(container, name) ==
    IF container[Len(container)].name = name THEN container[Len(container)].data
    ELSE zip_read(SubSeq(container, 1, Len(container) - 1), name)

\* zipfile.ZipFile(path, 'a').writestr(name, data): appends a new entry; an
\* entry that already has the name stays in the container.
writestr(container, name, data) ==
    Append(container, [name |-> name, data |-> data])

\* ----------------------------------------------------------- file system

\* A path is its directory part and its base name; os.path.dirname of a
\* bare file name is ''.
dirname(path) == path.dir

\* fs maps every existing file to its bytes; dirs is the set of existing
\* directories.  os.path.exists('') is False.
exists(directory) == directory # "" /\ directory \in dirs

\* IOBase._make_parent_directory: "ok", or the error os.makedirs('') raises.
make_parent_directory_result(path) ==
    IF exists(dirname(path)) THEN "ok"
    ELSE IF dirname(path) = "" THEN "FileNotFoundError" ELSE "ok"

\* The directories after IOBase._make_parent_directory.
make_parent_directory_dirs(path) ==
    IF ~exists(dirname(path)) /\ dirname(path) # ""
    THEN dirs \cup {dirname(path)} ELSE dirs

\* The file system with the bytes of one file set.
write(files, path, bytes) ==
    [q \in DOMAIN files \cup {path} |-> IF q = path THEN bytes ELSE files[q]]

\* ------------------------------------------------------- handles and calls

Variants == {"PlainText", "SpreadsheetSharedStrings", "GenericXML"}

\* save(dest_file_path=None)
NoDest == [dir |-> "", base |-> "None"]

\* The value of a handle field its class does not have.
NoTree == [parent |-> <<>>, text |-> <<>>, tail |-> <<>>]

\* The in-memory representation of the handle.
Mem == [text |-> text, sst |-> sst, etree |-> etree]

\* call records the last call on the handle: the method, its arguments, what
\* it returned or raised, and the handle and the files as they were before.
Called(op, texts, dest, ret, raised) ==
    [op |-> op, texts |-> texts, dest |-> dest, ret |-> ret, raised |-> raised,
     pre |-> Mem, prefs |-> fs]

\* Documents as the parsers deliver them.  lxml gives None for an element
\* without text and never gives a tail to the root element.
ParsedSlot == {None, <<" ">>, <<"a">>, <<" ", "b">>}

Shapes == {<<0>>, <<0, 1>>, <<0, 1, 1>>, <<0, 1, 2>>}

TreesOver(shapes, slots) ==
    UNION {{[parent |-> p, text |-> tx, tail |-> tl] :
                tx \in [1..Len(p) -> slots],
                tl \in {f \in [1..Len(p) -> slots] : f[getroot] = None}} :
           p \in shapes}

ParsedTrees == TreesOver(Shapes, ParsedSlot)

ParsedTables == SeqUpTo({None, <<" ">>, <<"f">>}, MaxEntries)

FileTexts == {<<>>, <<"a">>, <<"a", "LF">>, <<"a", "CR", "LF">>}

\* The texts a caller passes to swap: optional strings.
TextArgs == SeqUpTo({None, <<"x">>, <<" ">>}, MaxTexts)

\* The other parts of a spreadsheet container.
sheet_part == [name |-> "xl/worksheets/sheet1.xml", data |-> <<"<sheet>">>]

container_of(table) ==
    <<[name |-> shared_strings_path, data |-> sst_tostring(table)], sheet_part>>

\* __init__ of the three classes: the handle after opening a file that
\* holds a document of the given sets, at one of the given paths.  With
\* files FALSE the file system is left out (fs is the empty map).
InitOver(paths, filetexts, tables, trees, files) ==
    /\ variant \in Variants
    /\ original_path \in paths
    /\ dirs = IF dirname(original_path) = "" \/ ~files THEN {}
              ELSE {dirname(original_path)}
    /\ \/ /\ variant = "PlainText"
          /\ \E bytes \in filetexts :
                /\ text = read(bytes)
                /\ fs = IF files THEN (original_path :> bytes) ELSE <<>>
          /\ sst = <<>> /\ etree = NoTree
       \/ /\ variant = "SpreadsheetSharedStrings"
          /\ \E table \in tables :
                /\ sst = fromstring(zip_read(container_of(table), shared_strings_path))
                /\ fs = IF files THEN (original_path :> container_of(table)) ELSE <<>>
          /\ text = None /\ etree = NoTree
       \/ /\ variant = "GenericXML"
          /\ \E t \in trees :
                /\ etree = t
                /\ fs = IF files THEN (original_path :> XMLIO_tostring(t)) ELSE <<>>
          /\ text = None /\ sst = <<>>
    /\ call = [op |-> "open", texts |-> <<>>, dest |-> NoDest, ret |-> <<>>,
               raised |-> "", pre |-> [text |-> None, sst |-> <<>>, etree |-> NoTree],
               prefs |-> <<>>]
    /\ saves = 0

\* ----------------------------------------------------------------- actions

\* TextIO.extract
TextIOExtract ==
    /\ variant = "PlainText"
    /\ call' = Called("extract", <<>>, NoDest, TextIO_extract(text), "")
    /\ UNCHANGED <<variant, original_path, text, sst, etree, fs, dirs, saves>>

\* TextIO.swap: self.text = texts[0]; IndexError on an empty list.
TextIOSwap(texts) ==
    /\ variant = "PlainText"
    /\ IF texts = <<>>
       THEN /\ text' = text
            /\ call' = Called("swap", texts, NoDest, <<>>, "IndexError")
       ELSE /\ text' = texts[1]
            /\ call' = Called("swap", texts, NoDest, <<>>, "")
    /\ UNCHANGED <<variant, original_path, sst, etree, fs, dirs, saves>>

\* TextIO.save: the parent directory is made for either path; open(.., 'w')
\* truncates the file before f.write(self.text), which raises TypeError on
\* None.  (The build modelled writes "\n" as "\n".)
TextIOSave(dest) ==
    /\ variant = "PlainText"
    /\ LET actual_dest_file_path == IF dest = NoDest THEN original_path ELSE dest
           made == make_parent_directory_result(actual_dest_file_path)
       IN  IF made # "ok"
           THEN /\ call' = Called("save", <<>>, dest, <<>>, made)
                /\ UNCHANGED <<fs, dirs>>
           ELSE /\ dirs' = make_parent_directory_dirs(actual_dest_file_path)
                /\ IF text = None
                   THEN /\ fs' = write(fs, actual_dest_file_path, <<>>)
                        /\ call' = Called("save", <<>>, dest, <<>>, "TypeError")
                   ELSE /\ fs' = write(fs, actual_dest_file_path, text)
                        /\ call' = Called("save", <<>>, dest, <<>>, "")
    /\ saves' = saves + 1
    /\ UNCHANGED <<variant, original_path, text, sst, etree>>

\* OfficeOpenXMLSpreadsheetIO.extract
SpreadsheetExtract ==
    /\ variant = "SpreadsheetSharedStrings"
    /\ call' = Called("extract", <<>>, NoDest,
                      OfficeOpenXMLSpreadsheetIO_extract(sst), "")
    /\ UNCHANGED <<variant, original_path, text, sst, etree, fs, dirs, saves>>

\* OfficeOpenXMLSpreadsheetIO.swap
SpreadsheetSwap(texts) ==
    /\ variant = "SpreadsheetSharedStrings"
    /\ sst' = OfficeOpenXMLSpreadsheetIO_swap(sst, texts)
    /\ call' = Called("swap", texts, NoDest, <<>>, "")
    /\ UNCHANGED <<variant, original_path, text, etree, fs, dirs, saves>>

\* OfficeOpenXMLSpreadsheetIO.save: the original container is copied to a
\* new path, then the shared-string part is written to the container in
\* append mode.
SpreadsheetSave(dest) ==
    /\ variant = "SpreadsheetSharedStrings"
    /\ LET made == IF dest = NoDest THEN "ok" ELSE make_parent_directory_result(dest)
           actual_dest_file_path == IF dest = NoDest THEN original_path ELSE dest
           copied == IF dest = NoDest THEN fs ELSE write(fs, dest, fs[original_path])
           shared_strings == sst_tostring(sst)
       IN  IF made # "ok"
           THEN /\ call' = Called("save", <<>>, dest, <<>>, made)
                /\ UNCHANGED <<fs, dirs>>
           ELSE /\ dirs' = IF dest = NoDest THEN dirs ELSE make_parent_directory_dirs(dest)
                /\ fs' = write(copied, actual_dest_file_path,
                               writestr(copied[actual_dest_file_path],
                                        shared_strings_path, shared_strings))
                /\ call' = Called("save", <<>>, dest, <<>>, "")
    /\ saves' = saves + 1
    /\ UNCHANGED <<variant, original_path, text, sst, etree>>

\* XMLIO.extract
XMLExtract ==
    /\ variant = "GenericXML"
    /\ call' = Called("extract", <<>>, NoDest, XMLIO_extract(etree), "")
    /\ UNCHANGED <<variant, original_path, text, sst, etree, fs, dirs, saves>>

\* XMLIO.swap: the tree keeps what was written before pop() raised.
XMLSwap(texts) ==
    /\ variant = "GenericXML"
    /\ LET w == XMLIO_swap(etree, texts)
       IN  /\ etree' = w.tree
           /\ call' = Called("swap", texts, NoDest, <<>>,
                             IF w.raised THEN "IndexError" ELSE "")
    /\ UNCHANGED <<variant, original_path, text, sst, fs, dirs, saves>>

\* XMLIO.save: the whole tree is serialised to the path.
XMLSave(dest) ==
    /\ variant = "GenericXML"
    /\ LET made == IF dest = NoDest THEN "ok" ELSE make_parent_directory_result(dest)
           actual_dest_file_path == IF dest = NoDest THEN original_path ELSE dest
       IN  IF made # "ok"
           THEN /\ call' = Called("save", <<>>, dest, <<>>, made)
                /\ UNCHANGED <<fs, dirs>>
           ELSE /\ dirs' = IF dest = NoDest THEN dirs ELSE make_parent_directory_dirs(dest)
                /\ fs' = write(fs, actual_dest_file_path, XMLIO_tostring(etree))
                /\ call' = Called("save", <<>>, dest, <<>>, "")
    /\ saves' = saves + 1
    /\ UNCHANGED <<variant, original_path, text, sst, etree>>

\* ---------------------------------------------------------- specifications

\* The caller's protocol (spec.md, section 2): texts handed to swap come
\* from an extract, so a swap follows an open, an extract or a save.
MaySwap == call.op # "swap"

MaySave == saves < MaxSaves

\* The caller hands back what the extract just before returned.
HandsBack == call.op = "extract"

\* Spec: extract and swap on the three handles, over every parsed document
\* of the bounds.  It follows the handle only; SpecSave follows the files.
Init ==
    InitOver({[dir |-> "in", base |-> "doc"]}, FileTexts, ParsedTables,
             ParsedTrees, FALSE)

Next ==
    \/ TextIOExtract
    \/ SpreadsheetExtract
    \/ XMLExtract
    \/ MaySwap /\ \E texts \in TextArgs : TextIOSwap(texts)
    \/ MaySwap /\ \E texts \in TextArgs : SpreadsheetSwap(texts)
    \/ MaySwap /\ \E texts \in TextArgs : XMLSwap(texts)
    \/ HandsBack /\ TextIOSwap(call.ret)
    \/ HandsBack /\ SpreadsheetSwap(call.ret)
    \/ HandsBack /\ XMLSwap(call.ret)

Spec == Init /\ [][Next]_vars

\* SpecSave: extract, swap and save, with the files, over a smaller set of
\* documents and of texts; the original path is a bare file name or a file
\* in a directory, and so is the destination.
OrigPaths == {[dir |-> "", base |-> "doc"], [dir |-> "in", base |-> "doc"]}

DestPaths == {[dir |-> "", base |-> "copy"], [dir |-> "out", base |-> "copy"]}

SaveTrees == TreesOver({<<0, 1>>}, {None, <<"a">>})

SaveTables == SeqUpTo({None, <<"f">>}, 2)

SaveTextArgs == SeqUpTo({None, <<"x">>}, 2)

InitSave == InitOver(OrigPaths, FileTexts, SaveTables, SaveTrees, TRUE)

NextSave ==
    \/ TextIOExtract
    \/ SpreadsheetExtract
    \/ XMLExtract
    \/ MaySwap /\ \E texts \in SaveTextArgs : TextIOSwap(texts)
    \/ MaySwap /\ \E texts \in SaveTextArgs : SpreadsheetSwap(texts)
    \/ MaySwap /\ \E texts \in SaveTextArgs : XMLSwap(texts)
    \/ HandsBack /\ TextIOSwap(call.ret)
    \/ HandsBack /\ SpreadsheetSwap(call.ret)
    \/ HandsBack /\ XMLSwap(call.ret)
    \/ MaySave /\ \E dest \in DestPaths \cup {NoDest} : TextIOSave(dest)
    \/ MaySave /\ \E dest \in DestPaths \cup {NoDest} : SpreadsheetSave(dest)
    \/ MaySave /\ \E dest \in DestPaths \cup {NoDest} : XMLSave(dest)

SpecSave == InitSave /\ [][NextSave]_vars

\* ------------------------------------------------- reference definitions

\* A slot content that is present and has a character that is no whitespace.
NotBlank(txt) == txt # None /\ \E i \in 1..Len(txt) : ~isspace(txt[i])

\* The slots of a tree: <<node, "text">> and <<node, "tail">>.
Slots(t) == Nodes(t) \X {"text", "tail"}

Content(t, slot) == IF slot[2] = "text" THEN t.text[slot[1]] ELSE t.tail[slot[1]]

EligibleSlots(t) == {slot \in Slots(t) : NotBlank(Content(t, slot))}

\* Document order: the eligible slots of the subtree of e are the own-text
\* slot of e, then those of each child's subtree in child order, then the
\* tail slot of e.
RECURSIVE DocumentOrder(_, _), DocumentOrderOfAll(_, _)

DocumentOrder(t, e) ==
    (IF NotBlank(t.text[e]) THEN << <<e, "text">> >> ELSE <<>>)
    \o DocumentOrderOfAll(t, iterchildren(t, e))
    \o (IF NotBlank(t.tail[e]) THEN << <<e, "tail">> >> ELSE <<>>)

DocumentOrderOfAll(t, kids) ==
    IF kids = <<>> THEN <<>>
    ELSE DocumentOrder(t, Head(kids)) \o DocumentOrderOfAll(t, Tail(kids))

\* The eligible slots of the whole tree in document order, and their contents.
EligibleInOrder(t) == DocumentOrder(t, getroot)

ContentsInOrder(t) ==
    [i \in 1..Len(EligibleInOrder(t)) |-> Content(t, EligibleInOrder(t)[i])]

XMLCall(op) == variant = "GenericXML" /\ call.op = op

SheetCall(op) == variant = "SpreadsheetSharedStrings" /\ call.op = op

TextCall(op) == variant = "PlainText" /\ call.op = op

\* ------------------------------------------------------------------ claims

\* C2: XMLIO.extract returns exactly the contents of the eligible slots in
\* document order (own text, each child's whole sequence in child order,
\* then the tail), and leaves the tree as it was.
C2_ExtractIsDocumentOrder ==
    XMLCall("extract") =>
        /\ call.ret = ContentsInOrder(etree)
        /\ etree = call.pre.etree

\* C2 witness: an extract on a root with two children whose five slots are
\* all eligible and not all alike, returning five values.
C2_Witness ==
    /\ XMLCall("extract")
    /\ etree.parent = <<0, 1, 1>>
    /\ call.ret = << <<"a">>, <<" ", "b">>, <<"a">>, <<"a">>, <<" ", "b">> >>

\* C3: when texts has one value per eligible slot, XMLIO.swap pairs the i-th
\* value with the i-th eligible slot of extract's order: the slot holds
\* texts[i] if that is not None and its old content otherwise, nothing is
\* raised, and if every value is a non-blank string extract then returns texts.
C3_SwapOrderCorrespondence ==
    (XMLCall("swap") /\ Len(call.texts) = Len(EligibleInOrder(call.pre.etree))) =>
        LET old == call.pre.etree
            order == EligibleInOrder(old)
        IN  /\ call.raised = ""
            /\ \A i \in 1..Len(order) :
                  Content(etree, order[i]) =
                      IF call.texts[i] # None THEN call.texts[i]
                      ELSE Content(old, order[i])
            /\ (\A i \in 1..Len(order) : NotBlank(call.texts[i]))
                  => XMLIO_extract(etree) = call.texts

\* C3 witness: a swap of three values, a None among them, into a tree with
\* exactly three eligible slots, which changed the tree.
C3_Witness ==
    /\ XMLCall("swap")
    /\ Len(EligibleInOrder(call.pre.etree)) = 3
    /\ call.texts = << <<"x">>, None, <<"x">> >>
    /\ etree # call.pre.etree
    /\ XMLIO_extract(etree) = << <<"x">>, <<" ", "b">>, <<"x">> >>

\* C6: in the XML variant a slot whose content is None, empty or
\* whitespace-only gives no position to extract's output, takes no value
\* from texts (pop() raises exactly when texts has fewer values than there
\* are eligible slots), and keeps its content across any swap, also one
\* that raises.
C6_BlankSlotsExcluded ==
    /\ XMLCall("extract") =>
          /\ Len(call.ret) = Cardinality(EligibleSlots(etree))
          /\ \A i \in 1..Len(call.ret) : NotBlank(call.ret[i])
    /\ XMLCall("swap") =>
          /\ \A slot \in Slots(call.pre.etree) \ EligibleSlots(call.pre.etree) :
                Content(etree, slot) = Content(call.pre.etree, slot)
          /\ (call.raised = "IndexError")
                <=> (Len(call.texts) < Cardinality(EligibleSlots(call.pre.etree)))

\* C6 witness: a swap that raised on a tree holding a whitespace-only slot
\* and a None slot beside its eligible ones, after writing a value.
C6_Witness ==
    /\ XMLCall("swap")
    /\ call.raised = "IndexError"
    /\ etree # call.pre.etree
    /\ \E slot \in Slots(etree) : slot[1] # getroot /\ Content(etree, slot) = <<" ">>
    /\ \E slot \in Slots(etree) : slot[1] # getroot /\ Content(etree, slot) = None

\* C7: the spreadsheet swap sets entry i to texts[i] for every i up to the
\* shorter length with texts[i] not None, leaves every other entry as it
\* was, keeps the number of entries, and raises nothing.
C7_SheetSwapPositional ==
    SheetCall("swap") =>
        /\ call.raised = ""
        /\ Len(sst) = Len(call.pre.sst)
        /\ \A i \in 1..Len(sst) :
              sst[i] = IF i <= Len(call.texts) /\ call.texts[i] # None
                       THEN call.texts[i] ELSE call.pre.sst[i]

\* C7 witness: two texts, the second None, on a table of three entries with
\* an empty one: only the first entry changed.
C7_Witness ==
    /\ SheetCall("swap")
    /\ call.pre.sst = << <<"f">>, None, <<"f">> >>
    /\ call.texts = << <<"x">>, None >>
    /\ sst = << <<"x">>, None, <<"f">> >>

\* C9 as claimed: XMLIO.swap never raises, whatever the length of texts.
C9_SwapNeverRaises == XMLCall("swap") => call.raised = ""

\* C9 amended: texts longer than the eligible slots: the first values are
\* applied in order, the rest ignored, nothing raised; texts shorter: the
\* first len(texts) eligible slots are updated, the others keep their
\* content, and swap raises IndexError.
C9_SwapLengthMismatch ==
    XMLCall("swap") =>
        LET old == call.pre.etree
            order == EligibleInOrder(old)
        IN  /\ \A i \in 1..Len(order) :
                  Content(etree, order[i]) =
                      IF i <= Len(call.texts) /\ call.texts[i] # None
                      THEN call.texts[i] ELSE Content(old, order[i])
            /\ Len(call.texts) >= Len(order) => call.raised = ""
            /\ Len(call.texts) < Len(order) => call.raised = "IndexError"

\* C9 witness: a swap of one value into a tree with three eligible slots:
\* the first slot is written, the others are not, and IndexError is raised.
C9_Witness ==
    /\ XMLCall("swap")
    /\ Len(call.texts) = 1
    /\ Len(EligibleInOrder(call.pre.etree)) = 3
    /\ call.raised = "IndexError"
    /\ etree # call.pre.etree

\* What extract returns on a handle with the given in-memory representation.
ExtractOf(m) ==
    IF variant = "PlainText" THEN TextIO_extract(m.text)
    ELSE IF variant = "SpreadsheetSharedStrings"
         THEN OfficeOpenXMLSpreadsheetIO_extract(m.sst)
         ELSE XMLIO_extract(m.etree)

\* The representation is one a freshly opened handle has.
FreshlyOpened(m) ==
    IF variant = "PlainText" THEN m.text \in {read(bytes) : bytes \in FileTexts}
    ELSE IF variant = "SpreadsheetSharedStrings" THEN m.sst \in ParsedTables
         ELSE m.etree \in ParsedTrees

\* C1 as claimed: swap(extract()) on a freshly opened handle of any variant
\* raises nothing and leaves every text slot of the in-memory
\* representation as it was.
C1_RoundTripIdentity ==
    (call.op = "swap" /\ FreshlyOpened(call.pre) /\ call.texts = ExtractOf(call.pre))
        => (call.raised = "" /\ Mem = call.pre)

\* C4 as claimed: the spreadsheet extract has one position per entry of the
\* table, in table order, an entry without text giving ''.
C4_SheetExtractUnfiltered ==
    SheetCall("extract") =>
        /\ Len(call.ret) = Len(sst)
        /\ \A i \in 1..Min(Len(call.ret), Len(sst)) : call.ret[i] = chars(sst[i])

\* C5 as claimed: on every variant, a slot that held a string before a swap
\* holds a string after it.
C5_SwapNeverWritesNull ==
    call.op = "swap" =>
        /\ variant = "PlainText" => (call.pre.text # None => text # None)
        /\ variant = "SpreadsheetSharedStrings" =>
              \A i \in 1..Len(call.pre.sst) : call.pre.sst[i] # None => sst[i] # None
        /\ variant = "GenericXML" =>
              \A slot \in Slots(call.pre.etree) :
                  Content(call.pre.etree, slot) # None => Content(etree, slot) # None

\* The path a save call writes to.
Target == IF call.dest = NoDest THEN original_path ELSE call.dest

\* The file holds the current in-memory content.
HoldsContent(bytes) ==
    IF variant = "PlainText" THEN text # None /\ bytes = text
    ELSE IF variant = "SpreadsheetSharedStrings"
         THEN zip_read(bytes, shared_strings_path) = sst_tostring(sst)
         ELSE bytes = XMLIO_tostring(etree)

\* C8 as claimed: after a save on any variant the target (the original path
\* when no destination is given) holds the current in-memory content, a
\* save to another path leaves the original file as it was, and the
\* in-memory representation is unchanged.
C8_SaveDestination ==
    call.op = "save" =>
        /\ Target \in DOMAIN fs
        /\ HoldsContent(fs[Target])
        /\ call.dest # NoDest => fs[original_path] = call.prefs[original_path]
        /\ Mem = call.pre

\* The part names of a container.
Names(container) == {container[i].name : i \in 1..Len(container)}

\* C10 as claimed: after a spreadsheet save that raised nothing, the target
\* container has the part names of the original container, one entry per
\* name; its shared-string part is the serialised table; every other part
\* is as in the original; and a handle opened on it extracts what the
\* saving handle extracts.
C10_TargetedPartRewrite ==
    (SheetCall("save") /\ call.raised = "") =>
        LET container == fs[Target]
            original == call.prefs[original_path]
        IN  /\ Names(container) = Names(original)
            /\ \A name \in Names(container) :
                  Cardinality({i \in 1..Len(container) : container[i].name = name}) = 1
            /\ zip_read(container, shared_strings_path) = sst_tostring(sst)
            /\ \A i \in 1..Len(container) :
                  container[i].name # shared_strings_path =>
                      container[i].data = zip_read(original, container[i].name)
            /\ OfficeOpenXMLSpreadsheetIO_extract(
                   fromstring(zip_read(container, shared_strings_path)))
               = OfficeOpenXMLSpreadsheetIO_extract(sst)

====
